---------------------------- MODULE Spec2Model ----------------------------
(***************************************************************************)
(* State-machine model of stresstest/stresstest.go: the Stress runner, its *)
(* worker goroutines, the sync.Mutex guarding the shared StressReport and  *)
(* the sync.WaitGroup that run() joins on.                                 *)
(*                                                                         *)
(* One action per step of a goroutine.  A panic follows Go's semantics:    *)
(* the panicking goroutine runs its deferred calls (s.mu.Unlock, wg.Done)  *)
(* while every other goroutine keeps running, and only then the runtime    *)
(* terminates the process.                                                 *)
(***************************************************************************)
EXTENDS Integers, Sequences, FiniteSets

\* ------------------------------------------------------------- bounds ----
MaxConcurrency == 2
MaxRequests == 2
MaxElapsed == 1

\* Requests counted by the finished run whose finalization is examined.
MaxCounted == 6

\* Wall-clock time of the whole run is at least every per-request time.
MaxTotalTime == MaxElapsed + 1

\* Worker goroutines: one per concurrency slot plus the remainder workers.
MaxWorkers == IF MaxConcurrency = 0 THEN 0 ELSE 2 * MaxConcurrency - 1
Workers == 1..MaxWorkers

\* ------------------------------------------------- the HTTP transport ----
\* Status codes the target answers with.
StatusCodes == {200, 201, 500}

\* A nil *http.Response.
NilRes == 0

\* error values are modelled by their Error() text, a sequence of pieces.
NoErr == << >>
ErrConnRefused == <<"Get", "url", "dial tcp", "connect", "connection refused">>
ErrClientTimeout == <<"Get", "url", "context deadline exceeded", "Client.Timeout exceeded while awaiting headers">>
ErrOther == <<"Get", "url", "EOF">>

\* http.ErrHandlerTimeout.Error()
ErrHandlerTimeout == <<"http: Handler timeout">>

\* strings.Contains(err.Error(), piece)
Contains(msg, piece) == \E k \in 1..Len(msg) : msg[k] = piece

\* What client.Do(req) can return: (res, err).
DoOutcomes ==
    {[res |-> c, err |-> NoErr] : c \in StatusCodes}
        \cup {[res |-> NilRes, err |-> e] : e \in {ErrConnRefused, ErrClientTimeout, ErrOther}}

\* The kind of an error, for the bookkeeping of merged outcomes.
ErrKinds == {"refused", "timeout", "other"}
ErrKind(e) ==
    IF e = ErrConnRefused THEN "refused"
    ELSE IF e = ErrClientTimeout THEN "timeout"
    ELSE "other"

\* -------------------------------------------------------------- state ----
VARIABLES
    Concurrency,    \* Stress.Concurrency
    Requests,       \* Stress.Requests
    Verbose,        \* Stress.Verbose
    Report,         \* *Stress.Report
    mu,             \* Stress.mu: 0 when unlocked, else the holder
    wg,             \* the WaitGroup counter of run()
    mainpc,         \* position of the goroutine that called Run
    i,              \* loop variable of the two spawning loops of run()
    pc,             \* position of each worker goroutine
    group,          \* concurrencyGroup argument of each worker
    share,          \* number of runRequest calls each worker makes
    j,              \* loop variable of a base worker
    res,            \* runRequest: res (its status code, NilRes when nil)
    err,            \* runRequest: err
    elapsed,        \* runRequest: elapsed
    crashed,        \* the runtime terminated the process (unrecovered panic)
    issued,         \* history: client.Do calls returned, per worker
    mergedStatus,   \* history: completed merges of a response, per status
    mergedErrors,   \* history: completed merges of an error, per kind
    mergedElapsed,  \* history: elapsed values of the completed merges
    printed         \* history: how often each sequence number was printed

vars == <<Concurrency, Requests, Verbose, Report, mu, wg, mainpc, i, pc, group,
          share, j, res, err, elapsed, crashed, issued, mergedStatus,
          mergedErrors, mergedElapsed, printed>>

config == <<Concurrency, Requests, Verbose>>
locals == <<res, err, elapsed>>
history == <<issued, mergedStatus, mergedErrors, mergedElapsed, printed>>

\* A float64 field of the Report that results from float64(x) / float64(y) * k
\* is kept as its operands; with y = 0 it is NaN (x = 0) or +Inf (x > 0).
Quotient(x, y, k) == [num |-> x, den |-> y, times |-> k]

\* The float64 constant 0.
FloatZero == Quotient(0, 1, 1)

\* s.Report.TotalTime / float64(s.Report.Requests)
FloatDiv(x, y) == Quotient(x, y, 1)

\* A percentage left as a fraction: the * 100 is missing.
PercentageUnscaled(count, requests) == Quotient(count, requests, 1)

\* float64(count) / float64(requests) * 100
Percentage(count, requests) == Quotient(count, requests, 100)

NewStressReport ==
    [Requests |-> 0, Failed |-> 0, Succeeded |-> 0, TimedOut |-> 0,
     TotalTime |-> 0, AverageTime |-> FloatZero,
     FastestTime |-> 0, SlowestTime |-> 0,
     PercentageSucceeded |-> FloatZero, PercentageFailed |-> FloatZero,
     PercentageTimedOut |-> FloatZero,
     StatusRequests |-> [c \in {} |-> 0]]

\* NewStress, for every configuration within the bounds.
Init ==
    /\ Concurrency \in 0..MaxConcurrency
    /\ Requests \in 0..MaxRequests
    /\ Verbose \in BOOLEAN
    /\ Report = NewStressReport
    /\ mu = 0
    /\ wg = 0
    /\ mainpc = "spawnBase"
    /\ i = 0
    /\ pc = [w \in Workers |-> "unborn"]
    /\ group = [w \in Workers |-> 0]
    /\ share = [w \in Workers |-> 0]
    /\ j = [w \in Workers |-> 0]
    /\ res = [w \in Workers |-> NilRes]
    /\ err = [w \in Workers |-> NoErr]
    /\ elapsed = [w \in Workers |-> 0]
    /\ crashed = FALSE
    /\ issued = [w \in Workers |-> 0]
    /\ mergedStatus = [c \in StatusCodes |-> 0]
    /\ mergedErrors = [k \in ErrKinds |-> 0]
    /\ mergedElapsed = {}
    /\ printed = [n \in 1..MaxRequests |-> 0]

\* ------------------------------------------------- run(): the runner ----
\* s.Requests / s.Concurrency, the number of iterations of a base worker.
BaseShare(requests, concurrency) == requests \div concurrency

\* The quotient taken for the number of remainder workers.
RemainderAsQuotient(requests, concurrency) == requests \div concurrency

\* s.Requests % s.Concurrency, the number of remainder workers.
Remainder(requests, concurrency) == requests % concurrency

\* The test of a worker's loop: another runRequest, or return from the
\* goroutine's function (whose deferred wg.Done then runs).
LoopTest(jv, sh) == IF jv < sh THEN "do" ELSE "return"

\* for i := 0; i < s.Concurrency; i++ { wg.Add(1); go func() {...}() }
SpawnBase ==
    /\ ~crashed
    /\ mainpc = "spawnBase"
    /\ i < Concurrency
    /\ wg' = wg + 1
    /\ LET w == i + 1 IN
         /\ group' = [group EXCEPT ![w] = i + 1]
         /\ share' = [share EXCEPT ![w] = BaseShare(Requests, Concurrency)]
         /\ pc' = [pc EXCEPT ![w] = LoopTest(0, BaseShare(Requests, Concurrency))]
    /\ i' = i + 1
    /\ UNCHANGED <<config, Report, mu, mainpc, j, locals, crashed, history>>

\* The first loop ends; the second one starts with i := 0.
BaseSpawned ==
    /\ ~crashed
    /\ mainpc = "spawnBase"
    /\ ~(i < Concurrency)
    /\ mainpc' = "spawnExtra"
    /\ i' = 0
    /\ UNCHANGED <<config, Report, mu, wg, pc, group, share, j, locals, crashed, history>>

\* A remainder by zero that yields zero instead of a panic: no remainder
\* worker, and run() goes on to wg.Wait().
DivideByZeroYieldsZero ==
    /\ ~crashed
    /\ mainpc = "spawnExtra"
    /\ Concurrency = 0
    /\ mainpc' = "wait"
    /\ UNCHANGED <<config, Report, mu, wg, i, pc, group, share, j, locals, crashed, history>>

\* s.Requests % s.Concurrency with s.Concurrency = 0: the runtime panics
\* with an integer divide by zero in the goroutine that called Run.
DivideByZero ==
    /\ ~crashed
    /\ mainpc = "spawnExtra"
    /\ Concurrency = 0
    /\ mainpc' = "fatal"
    /\ UNCHANGED <<config, Report, mu, wg, i, pc, group, share, j, locals, crashed, history>>

\* for i := 0; i < s.Requests%s.Concurrency; i++ { wg.Add(1); go func() {...}() }
SpawnExtra ==
    /\ ~crashed
    /\ mainpc = "spawnExtra"
    /\ Concurrency # 0
    /\ i < Remainder(Requests, Concurrency)
    /\ wg' = wg + 1
    /\ LET w == Concurrency + i + 1 IN
         /\ group' = [group EXCEPT ![w] = i + 1]
         /\ share' = [share EXCEPT ![w] = 1]
         /\ pc' = [pc EXCEPT ![w] = "do"]
    /\ i' = i + 1
    /\ UNCHANGED <<config, Report, mu, mainpc, j, locals, crashed, history>>

ExtraSpawned ==
    /\ ~crashed
    /\ mainpc = "spawnExtra"
    /\ Concurrency # 0
    /\ ~(i < Remainder(Requests, Concurrency))
    /\ mainpc' = "wait"
    /\ UNCHANGED <<config, Report, mu, wg, i, pc, group, share, j, locals, crashed, history>>

\* wg.Wait() returns once the counter is zero.
WaitReturns(counter) == counter = 0

Wait ==
    /\ ~crashed
    /\ mainpc = "wait"
    /\ WaitReturns(wg)
    /\ mainpc' = "finalize"
    /\ UNCHANGED <<config, Report, mu, wg, i, pc, group, share, j, locals, crashed, history>>

\* The derived statistics, from the counters and the measured wall time.
Finalized(report, total) ==
    [report EXCEPT
        !.TotalTime = total,
        !.AverageTime = FloatDiv(total, report.Requests),
        !.PercentageSucceeded = Percentage(report.Succeeded, report.Requests),
        !.PercentageFailed = Percentage(report.Failed, report.Requests),
        !.PercentageTimedOut = Percentage(report.TimedOut, report.Requests)]

\* elapsed := time.Since(start).Milliseconds() and the five assignments;
\* run() and Run() then return.
Finalize ==
    /\ ~crashed
    /\ mainpc = "finalize"
    /\ \E total \in Report.SlowestTime..MaxTotalTime :
         Report' = Finalized(Report, total)
    /\ mainpc' = "done"
    /\ UNCHANGED <<config, mu, wg, i, pc, group, share, j, locals, crashed, history>>

\* An unrecovered panic of the calling goroutine ends the process.
MainFatal ==
    /\ ~crashed
    /\ mainpc = "fatal"
    /\ crashed' = TRUE
    /\ UNCHANGED <<config, Report, mu, wg, mainpc, i, pc, group, share, j, locals, history>>

\* ------------------------------------------- runRequest, updateReport ----
\* res, err := client.Do(req); elapsed := time.Since(start).Milliseconds()
\* followed by the test of s.Verbose.
Do(w) ==
    /\ ~crashed
    /\ pc[w] = "do"
    /\ \E o \in DoOutcomes, ms \in 0..MaxElapsed :
         /\ res' = [res EXCEPT ![w] = o.res]
         /\ err' = [err EXCEPT ![w] = o.err]
         /\ elapsed' = [elapsed EXCEPT ![w] = ms]
    /\ issued' = [issued EXCEPT ![w] = @ + 1]
    /\ pc' = [pc EXCEPT ![w] = IF Verbose THEN "print" ELSE "lock"]
    /\ UNCHANGED <<config, Report, mu, wg, mainpc, i, group, share, j, crashed,
                   mergedStatus, mergedErrors, mergedElapsed, printed>>

\* fmt.Sprint(s.Report.Requests+1): the running sequence number of the
\* verbose line, read from the Report without the mutex.
SequenceNumber(report) == report.Requests + 1

\* One more line printed with sequence number n.
Printed(lines, n) == [lines EXCEPT ![n] = @ + 1]

\* The verbose line: fmt.Print(... s.Report.Requests+1 ...) and then
\* fmt.Println(..., res.StatusCode), with res not nil.
PrintVerbose(w) ==
    /\ ~crashed
    /\ pc[w] = "print"
    /\ res[w] # NilRes
    /\ printed' = Printed(printed, SequenceNumber(Report))
    /\ pc' = [pc EXCEPT ![w] = "lock"]
    /\ UNCHANGED <<config, Report, mu, wg, mainpc, i, group, share, j, locals,
                   crashed, issued, mergedStatus, mergedErrors, mergedElapsed>>

\* The verbose line with res nil: res.StatusCode dereferences a nil pointer
\* and the goroutine panics; its only deferred call is wg.Done.
PrintNilDeref(w) ==
    /\ ~crashed
    /\ pc[w] = "print"
    /\ res[w] = NilRes
    /\ printed' = Printed(printed, SequenceNumber(Report))
    /\ pc' = [pc EXCEPT ![w] = "panicDone"]
    /\ UNCHANGED <<config, Report, mu, wg, mainpc, i, group, share, j, locals,
                   crashed, issued, mergedStatus, mergedErrors, mergedElapsed>>

\* strings.Contains(err.Error(), "connection refused")
IsConnRefused(e) == Contains(e, "connection refused")

\* err.Error() == http.ErrHandlerTimeout.Error()
IsTimeout(e) == e = ErrHandlerTimeout

\* A first-seen bucket that starts at one instead of zero.
WithBucketFromOne(m, code) ==
    IF code \in DOMAIN m THEN m
    ELSE [c \in DOMAIN m \cup {code} |-> IF c = code THEN 1 ELSE m[c]]

\* if _, ok := m[code]; !ok { m[code] = 0 }
WithBucket(m, code) ==
    IF code \in DOMAIN m THEN m
    ELSE [c \in DOMAIN m \cup {code} |-> IF c = code THEN 0 ELSE m[c]]

\* m[code]++
Increment(m, code) == [m EXCEPT ![code] = @ + 1]

\* The classification without the Failed++ of the error branch.
ClassifiedErrorUncounted(report, r, e) ==
    IF e # NoErr
    THEN [report EXCEPT
            !.TimedOut = IF IsTimeout(e) THEN @ + 1 ELSE @]
    ELSE [report EXCEPT
            !.Failed = IF r # 200 THEN @ + 1 ELSE @,
            !.Succeeded = IF r # 200 THEN @ ELSE @ + 1,
            !.StatusRequests = Increment(WithBucket(@, r), r)]

\* The classification with every 2xx status taken as a success.
ClassifiedAny2xx(report, r, e) ==
    IF e # NoErr
    THEN [report EXCEPT
            !.TimedOut = IF IsTimeout(e) THEN @ + 1 ELSE @,
            !.Failed = @ + 1]
    ELSE [report EXCEPT
            !.Failed = IF r < 200 \/ r > 299 THEN @ + 1 ELSE @,
            !.Succeeded = IF r < 200 \/ r > 299 THEN @ ELSE @ + 1,
            !.StatusRequests = Increment(WithBucket(@, r), r)]

\* The classification with a timeout counted in TimedOut alone.
ClassifiedTimeoutAlone(report, r, e) ==
    IF e # NoErr
    THEN IF Contains(e, "context deadline exceeded")
         THEN [report EXCEPT !.TimedOut = @ + 1]
         ELSE [report EXCEPT !.Failed = @ + 1]
    ELSE [report EXCEPT
            !.Failed = IF r # 200 THEN @ + 1 ELSE @,
            !.Succeeded = IF r # 200 THEN @ ELSE @ + 1,
            !.StatusRequests = Increment(WithBucket(@, r), r)]

\* The classification with the histogram update outside the else branch.
ClassifiedBucketAlways(report, r, e) ==
    LET counted ==
            IF e # NoErr
            THEN [report EXCEPT
                    !.TimedOut = IF IsTimeout(e) THEN @ + 1 ELSE @,
                    !.Failed = @ + 1]
            ELSE [report EXCEPT
                    !.Failed = IF r # 200 THEN @ + 1 ELSE @,
                    !.Succeeded = IF r # 200 THEN @ ELSE @ + 1]
    IN [counted EXCEPT !.StatusRequests = Increment(WithBucket(@, r), r)]

\* The if err != nil { ... } else { ... } of updateReport, past the test
\* for connection refused.
Classified(report, r, e) ==
    IF e # NoErr
    THEN [report EXCEPT
            !.TimedOut = IF IsTimeout(e) THEN @ + 1 ELSE @,
            !.Failed = @ + 1]
    ELSE [report EXCEPT
            !.Failed = IF r # 200 THEN @ + 1 ELSE @,
            !.Succeeded = IF r # 200 THEN @ ELSE @ + 1,
            !.StatusRequests = Increment(WithBucket(@, r), r)]

\* A Lock() that does not wait for the mutex.
LockReturnsAlways(m) == TRUE

\* s.mu.Lock() returns once the mutex is unlocked.
LockReturns(m) == m = 0

\* An updateReport that returns with the mutex still locked.
StillLocked(holder) == holder

\* The deferred s.mu.Unlock(): the mutex is unlocked.
Unlocked(holder) == 0

\* s.mu.Lock(), and with the mutex held the classification of the outcome.
Classify(w) ==
    /\ ~crashed
    /\ pc[w] = "lock"
    /\ LockReturns(mu)
    /\ ~(err[w] # NoErr /\ IsConnRefused(err[w]))
    /\ mu' = w
    /\ Report' = Classified(Report, res[w], err[w])
    /\ pc' = [pc EXCEPT ![w] = "count"]
    /\ UNCHANGED <<config, wg, mainpc, i, group, share, j, locals, crashed,
                   history>>

\* s.mu.Lock(), and with the mutex held panic(err) on connection refused.
PanicRefused(w) ==
    /\ ~crashed
    /\ pc[w] = "lock"
    /\ LockReturns(mu)
    /\ err[w] # NoErr /\ IsConnRefused(err[w])
    /\ mu' = w
    /\ pc' = [pc EXCEPT ![w] = "panicUnlock"]
    /\ UNCHANGED <<config, Report, wg, mainpc, i, group, share, j, locals,
                   crashed, history>>

\* s.Report.Requests++
Counted(report) == [report EXCEPT !.Requests = @ + 1]

Count(w) ==
    /\ ~crashed
    /\ pc[w] = "count"
    /\ Report' = Counted(Report)
    /\ pc' = [pc EXCEPT ![w] = "minmax"]
    /\ UNCHANGED <<config, mu, wg, mainpc, i, group, share, j, locals, crashed,
                   history>>

\* if elapsed < FastestTime || FastestTime == 0 { FastestTime = elapsed }
Fastest(fastest, ms) == IF ms < fastest \/ fastest = 0 THEN ms ELSE fastest

\* The comparison of the slowest time turned around.
SlowestFlipped(slowest, ms) == IF ms < slowest THEN ms ELSE slowest

\* if elapsed > SlowestTime { SlowestTime = elapsed }
Slowest(slowest, ms) == IF ms > slowest THEN ms ELSE slowest

\* The two updates of the extreme times, then the deferred s.mu.Unlock() as
\* updateReport returns; runRequest returns too, and the worker's loop makes
\* its j++ and its test.
MinMax(w) ==
    /\ ~crashed
    /\ pc[w] = "minmax"
    /\ mu = w
    /\ Report' = [Report EXCEPT
                    !.FastestTime = Fastest(@, elapsed[w]),
                    !.SlowestTime = Slowest(@, elapsed[w])]
    /\ mu' = Unlocked(mu)
    /\ IF err[w] = NoErr
       THEN /\ mergedStatus' = [mergedStatus EXCEPT ![res[w]] = @ + 1]
            /\ UNCHANGED mergedErrors
       ELSE /\ mergedErrors' = [mergedErrors EXCEPT ![ErrKind(err[w])] = @ + 1]
            /\ UNCHANGED mergedStatus
    /\ mergedElapsed' = mergedElapsed \cup {elapsed[w]}
    /\ j' = [j EXCEPT ![w] = @ + 1]
    /\ pc' = [pc EXCEPT ![w] = LoopTest(j[w] + 1, share[w])]
    /\ res' = [res EXCEPT ![w] = NilRes]
    /\ err' = [err EXCEPT ![w] = NoErr]
    /\ elapsed' = [elapsed EXCEPT ![w] = 0]
    /\ UNCHANGED <<config, wg, mainpc, i, group, share, crashed, issued, printed>>

\* The deferred wg.Done() as the worker's function returns.
Done(w) ==
    /\ ~crashed
    /\ pc[w] = "return"
    /\ wg' = wg - 1
    /\ pc' = [pc EXCEPT ![w] = "finished"]
    /\ UNCHANGED <<config, Report, mu, mainpc, i, group, share, j, locals,
                   crashed, history>>

\* A panicking worker runs the deferred s.mu.Unlock() of updateReport.
PanicUnlock(w) ==
    /\ ~crashed
    /\ pc[w] = "panicUnlock"
    /\ mu' = Unlocked(mu)
    /\ pc' = [pc EXCEPT ![w] = "panicDone"]
    /\ UNCHANGED <<config, Report, wg, mainpc, i, group, share, j, locals,
                   crashed, history>>

\* A panicking worker runs the deferred wg.Done() of its function.
PanicDone(w) ==
    /\ ~crashed
    /\ pc[w] = "panicDone"
    /\ wg' = wg - 1
    /\ pc' = [pc EXCEPT ![w] = "fatal"]
    /\ UNCHANGED <<config, Report, mu, mainpc, i, group, share, j, locals,
                   crashed, history>>

\* No deferred call is left and nothing recovered: the runtime prints the
\* panic and exits the process.
WorkerFatal(w) ==
    /\ ~crashed
    /\ pc[w] = "fatal"
    /\ crashed' = TRUE
    /\ UNCHANGED <<config, Report, mu, wg, mainpc, i, pc, group, share, j,
                   locals, history>>

Next ==
    \/ SpawnBase
    \/ BaseSpawned
    \/ DivideByZero
    \/ SpawnExtra
    \/ ExtraSpawned
    \/ Wait
    \/ Finalize
    \/ MainFatal
    \/ \E w \in Workers : Do(w)
    \/ \E w \in Workers : PrintVerbose(w)
    \/ \E w \in Workers : PrintNilDeref(w)
    \/ \E w \in Workers : Classify(w)
    \/ \E w \in Workers : PanicRefused(w)
    \/ \E w \in Workers : Count(w)
    \/ \E w \in Workers : MinMax(w)
    \/ \E w \in Workers : Done(w)
    \/ \E w \in Workers : PanicUnlock(w)
    \/ \E w \in Workers : PanicDone(w)
    \/ \E w \in Workers : WorkerFatal(w)

Spec == Init /\ [][Next]_vars

\* The steps of the goroutine that called Run, and of one worker goroutine.
MainStep ==
    \/ SpawnBase
    \/ BaseSpawned
    \/ DivideByZero
    \/ SpawnExtra
    \/ ExtraSpawned
    \/ Wait
    \/ Finalize
    \/ MainFatal

WorkerStep(w) ==
    \/ Do(w)
    \/ PrintVerbose(w)
    \/ PrintNilDeref(w)
    \/ Classify(w)
    \/ PanicRefused(w)
    \/ Count(w)
    \/ MinMax(w)
    \/ Done(w)
    \/ PanicUnlock(w)
    \/ PanicDone(w)
    \/ WorkerFatal(w)

\* The Go scheduler runs every goroutine that can take a step, and every
\* client.Do returns (a response, an error, or the client timeout).
FairSpec ==
    /\ Spec
    /\ WF_vars(MainStep)
    /\ \A w \in Workers : WF_vars(WorkerStep(w))

\* The run as wg.Wait() has just returned, for concurrency 1 and n requests
\* all issued by the one worker, s of them answered with 200 and the others
\* with 500, each within less than a millisecond.
Histogram(s, f) ==
    [c \in {c \in {200, 500} : (c = 200 /\ s > 0) \/ (c = 500 /\ f > 0)} |->
        IF c = 200 THEN s ELSE f]

FinalizeInit ==
    \E n \in 0..MaxCounted : \E s \in 0..n :
        /\ Concurrency = 1
        /\ Requests = n
        /\ Verbose = FALSE
        /\ Report = [NewStressReport EXCEPT
                        !.Requests = n,
                        !.Succeeded = s,
                        !.Failed = n - s,
                        !.StatusRequests = Histogram(s, n - s)]
        /\ mu = 0
        /\ wg = 0
        /\ mainpc = "finalize"
        /\ i = 0
        /\ pc = [w \in Workers |-> IF w = 1 THEN "finished" ELSE "unborn"]
        /\ group = [w \in Workers |-> IF w = 1 THEN 1 ELSE 0]
        /\ share = [w \in Workers |-> IF w = 1 THEN n ELSE 0]
        /\ j = [w \in Workers |-> IF w = 1 THEN n ELSE 0]
        /\ res = [w \in Workers |-> NilRes]
        /\ err = [w \in Workers |-> NoErr]
        /\ elapsed = [w \in Workers |-> 0]
        /\ crashed = FALSE
        /\ issued = [w \in Workers |-> IF w = 1 THEN n ELSE 0]
        /\ mergedStatus = [c \in StatusCodes |->
                              IF c = 200 THEN s ELSE IF c = 500 THEN n - s ELSE 0]
        /\ mergedErrors = [k \in ErrKinds |-> 0]
        /\ mergedElapsed = IF n = 0 THEN {} ELSE {0}
        /\ printed = [k \in 1..MaxRequests |-> 0]

\* The finalization of run() alone, from every such state.
FinalizeSpec == FinalizeInit /\ [][Finalize]_vars

\* ------------------------------------------------ float64 arithmetic ----
\* The derived statistics are float64 values.  A finite value is kept as
\* [m |-> bits, e |-> exponent]: the binary integer written by the bits m
\* (most significant first, F64Precision of them, the first one 1) times
\* 2^e; zero has no bits.  Every operation rounds to nearest, ties to even.
F64Precision == 53

Zeros(n) == [k \in 1..n |-> 0]

\* The bits of a non-negative integer, without leading zeros.
RECURSIVE IntBits(_)
IntBits(n) == IF n = 0 THEN << >> ELSE Append(IntBits(n \div 2), n % 2)

StripZeros(bits) ==
    LET ones == {k \in 1..Len(bits) : bits[k] = 1}
    IN IF ones = {} THEN << >>
       ELSE SubSeq(bits, CHOOSE k \in ones : \A o \in ones : k <= o, Len(bits))

\* bits + 1
Incremented(bits) ==
    LET zeros == {k \in 1..Len(bits) : bits[k] = 0}
    IN IF zeros = {} THEN <<1>> \o Zeros(Len(bits))
       ELSE LET z == CHOOSE k \in zeros : \A o \in zeros : o <= k
            IN [k \in 1..Len(bits) |->
                   IF k < z THEN bits[k] ELSE IF k = z THEN 1 ELSE 0]

\* bits[lo..hi] * k + carry for a small integer k: the low hi - lo + 1 bits
\* of the result and what is carried beyond them.  The carry is never
\* negative; testing it first has it evaluated before the range is split.
RECURSIVE TimesRange(_, _, _, _, _)
TimesRange(bits, k, lo, hi, carry) ==
    IF lo > hi \/ carry < 0 THEN [bits |-> << >>, carry |-> carry]
    ELSE IF lo = hi
         THEN LET v == bits[lo] * k + carry
              IN [bits |-> <<v % 2>>, carry |-> v \div 2]
    ELSE LET mid == (lo + hi) \div 2
             low == TimesRange(bits, k, mid + 1, hi, carry)
             high == TimesRange(bits, k, lo, mid, low.carry)
         IN [bits |-> high.bits \o low.bits, carry |-> high.carry]

\* bits * k
TimesSmall(bits, k) ==
    LET r == TimesRange(bits, k, 1, Len(bits), 0)
    IN IntBits(r.carry) \o r.bits

\* a[lo..hi] + b[lo..hi] + carry, for bit sequences of the same length.
RECURSIVE SumRange(_, _, _, _, _)
SumRange(a, b, lo, hi, carry) ==
    IF lo > hi \/ carry < 0 THEN [bits |-> << >>, carry |-> carry]
    ELSE IF lo = hi
         THEN LET v == a[lo] + b[lo] + carry
              IN [bits |-> <<v % 2>>, carry |-> v \div 2]
    ELSE LET mid == (lo + hi) \div 2
             low == SumRange(a, b, mid + 1, hi, carry)
             high == SumRange(a, b, lo, mid, low.carry)
         IN [bits |-> high.bits \o low.bits, carry |-> high.carry]

\* a + b
SumBits(a, b) ==
    LET r == SumRange(a, b, 1, Len(a), 0)
    IN IntBits(r.carry) \o r.bits

\* 2^k modulo y
RECURSIVE PowerOfTwoMod(_, _)
PowerOfTwoMod(k, y) ==
    IF k = 0 THEN 1 % y
    ELSE LET h == PowerOfTwoMod(k \div 2, y)
         IN (((h * h) % y) * (IF k % 2 = 1 THEN 2 ELSE 1)) % y

\* What is left of rem / y (rem < y) after k bits of the quotient.
RemainderAfter(rem, y, k) == (rem * PowerOfTwoMod(k, y)) % y

\* n more bits of the quotient of rem / y, and the remainder left.
FractionBits(rem, y, n) ==
    [bits |-> [k \in 1..n |->
                  IF 2 * RemainderAfter(rem, y, k - 1) >= y THEN 1 ELSE 0],
     rem |-> RemainderAfter(rem, y, n)]

F64Nothing == [m |-> << >>, e |-> 0]

\* The value bits * 2^e (plus something below its last bit when sticky),
\* rounded to p significant bits, to nearest and ties to even.
Rounded(bits, e, sticky, p) ==
    LET sig == StripZeros(bits)
        n == Len(sig)
    IN IF n = 0 THEN F64Nothing
       ELSE IF n <= p THEN [m |-> sig \o Zeros(p - n), e |-> e - (p - n)]
       ELSE LET keep == SubSeq(sig, 1, p)
                guard == sig[p + 1]
                below == sticky \/ \E k \in (p + 2)..n : sig[k] = 1
                up == guard = 1 /\ (below \/ keep[p] = 1)
                raised == Incremented(keep)
            IN IF ~up THEN [m |-> keep, e |-> e + (n - p)]
               ELSE IF Len(raised) = p THEN [m |-> raised, e |-> e + (n - p)]
               ELSE [m |-> SubSeq(raised, 1, p), e |-> e + (n - p) + 1]

\* float64(n) of a small non-negative integer: exact.
F64FromInt(n) == Rounded(IntBits(n), 0, FALSE, F64Precision)

\* float64(x) / float64(y) for small integers x >= 0, y > 0.
F64Div(x, y) ==
    LET n == F64Precision + 2 + Len(IntBits(y))
        frac == FractionBits(x % y, y, n)
    IN Rounded(IntBits(x \div y) \o frac.bits, 0 - n, frac.rem # 0, F64Precision)

\* f * float64(k) for a small integer k > 0.
F64Times(f, k) == Rounded(TimesSmall(f.m, k), f.e, FALSE, F64Precision)

\* f + g
F64Plus(f, g) ==
    IF f.m = << >> THEN g
    ELSE IF g.m = << >> THEN f
    ELSE LET e == IF f.e < g.e THEN f.e ELSE g.e
             a == f.m \o Zeros(f.e - e)
             b == g.m \o Zeros(g.e - e)
             n == IF Len(a) < Len(b) THEN Len(b) ELSE Len(a)
         IN Rounded(SumBits(Zeros(n - Len(a)) \o a, Zeros(n - Len(b)) \o b),
                    e, FALSE, F64Precision)

\* a <= b for bit sequences of the same length
BitsLeq(a, b) ==
    \/ a = b
    \/ \E k \in 1..Len(a) : a[k] < b[k] /\ \A o \in 1..(k - 1) : a[o] = b[o]

\* f <= g
F64Leq(f, g) ==
    IF f.m = << >> THEN TRUE
    ELSE IF g.m = << >> THEN FALSE
    ELSE IF f.e # g.e THEN f.e < g.e
    ELSE BitsLeq(f.m, g.m)

\* A quotient with a denominator of zero is NaN or +Inf, not a finite value.
IsFinite(q) == q.den # 0

\* f and g are the same once rounded to three bits less than a float64
\* holds: they differ by a few units in the last place at most.
F64Near(f, g) ==
    Rounded(f.m, f.e, FALSE, F64Precision - 3) = Rounded(g.m, g.e, FALSE, F64Precision - 3)

\* The float64 value of a finite field: float64(num) / float64(den) * times.
F64Value(q) == F64Times(F64Div(q.num, q.den), q.times)

\* ======================================================= the claims ====
RECURSIVE SumOver(_, _)
SumOver(f, S) ==
    IF S = {} THEN 0
    ELSE LET x == CHOOSE y \in S : TRUE IN f[x] + SumOver(f, S \ {x})

\* A worker that panicked: it is unwinding or has handed over to the runtime.
Panicking(w) == pc[w] \in {"panicUnlock", "panicDone", "fatal"}

\* Some request attempt of the run ended in connection refused (a worker
\* keeps that error in err: no merge completes for it).
RefusedSeen == \E w \in Workers : err[w] = ErrConnRefused

\* The workers run() spawns for the configuration.
Spawned == 1..(Concurrency + (Requests % Concurrency))

\* Run has returned to its caller.
RunReturned == mainpc = "done"

\* The run is over: Run returned or the process was terminated.
RunOver == RunReturned \/ crashed

\* Number of completed merges.
MergedCount == SumOver(mergedStatus, StatusCodes) + SumOver(mergedErrors, ErrKinds)

\* StatusRequests[c], zero for a code without a bucket.
Bucket(c) ==
    IF c \in DOMAIN Report.StatusRequests THEN Report.StatusRequests[c] ELSE 0

\* C1: for concurrency > 0 and a run without a connection-refused outcome,
\* once the run is over every base worker has issued floor(requests /
\* concurrency) requests and exactly (requests mod concurrency) extra workers
\* have issued one request each, and when Run returns Report.Requests is the
\* configured request count.
C1_PartitionIssuesAll ==
    (Concurrency > 0 /\ ~RefusedSeen) =>
        /\ RunOver =>
             /\ \A w \in 1..Concurrency : issued[w] = Requests \div Concurrency
             /\ Cardinality({w \in Workers : w > Concurrency /\ issued[w] = 1})
                    = Requests % Concurrency
             /\ \A w \in Workers : w > Concurrency => issued[w] <= 1
        /\ RunReturned => Report.Requests = Requests

\* C2: whenever no worker is inside the merge critical section, Succeeded +
\* Failed = Requests, and Requests counts the completed merges: each merged
\* outcome was classified as exactly one of succeeded or failed.
C2_SucceededPlusFailed ==
    mu = 0 =>
        /\ Report.Succeeded + Report.Failed = Report.Requests
        /\ Report.Requests = MergedCount

C2_Witness ==
    /\ mu = 0
    /\ Report.Succeeded >= 1
    /\ mergedErrors["timeout"] >= 1

\* C3: once at least one outcome is merged, FastestTime is at most the
\* elapsed time of every merged outcome, and is one of them (their minimum),
\* elapsed times of 0 ms included.
C3_FastestIsMinimum ==
    (mu = 0 /\ mergedElapsed # {}) =>
        /\ \A ms \in mergedElapsed : Report.FastestTime <= ms
        /\ Report.FastestTime \in mergedElapsed

\* C4: once at least one outcome is merged, SlowestTime is at least the
\* elapsed time of every merged outcome, and is one of them (their maximum).
C4_SlowestIsMaximum ==
    (mu = 0 /\ mergedElapsed # {}) =>
        /\ \A ms \in mergedElapsed : ms <= Report.SlowestTime
        /\ Report.SlowestTime \in mergedElapsed

C4_Witness ==
    /\ mu = 0
    /\ mergedElapsed = {0, 1}
    /\ Report.Requests >= 2

\* C5: an error other than connection refused never interrupts the run,
\* verbose or not: in a run with concurrency > 0 and no connection-refused
\* outcome no goroutine panics and the process is not terminated.
C5_ErrorsNeverInterrupt ==
    (Concurrency > 0 /\ ~RefusedSeen) =>
        /\ \A w \in Workers : ~Panicking(w)
        /\ ~crashed

\* C6: once a request attempt ended in connection refused, Run never
\* completes normally (the derived statistics are never written) and that
\* outcome is never recorded in the Report.
C6_RefusedAborts ==
    RefusedSeen =>
        /\ ~RunReturned
        /\ mergedErrors["refused"] = 0
        /\ \A w \in Workers :
             (err[w] = ErrConnRefused /\ mu = w) => Report.Requests = MergedCount

\* C7: every merged outcome of a request whose per-request timeout expired
\* incremented TimedOut (and Failed): outside the critical section TimedOut is
\* the number of merged timeouts.
C7_TimedOutCounted ==
    mu = 0 =>
        /\ Report.TimedOut = mergedErrors["timeout"]
        /\ Report.Failed >= Report.TimedOut

\* C8: after a normal run (Run returned and no goroutine panicked) Succeeded
\* is the number of responses with status 200, Failed the number of responses
\* with another status plus the number of errors, and each histogram bucket
\* the number of responses with its code, with no bucket for an unseen code.
C8_CountsByStatus ==
    (RunReturned /\ \A w \in Workers : ~Panicking(w)) =>
        /\ Report.Succeeded = mergedStatus[200]
        /\ Report.Failed = SumOver(mergedStatus, StatusCodes \ {200})
                              + SumOver(mergedErrors, ErrKinds)
        /\ \A c \in StatusCodes : Bucket(c) = mergedStatus[c]
        /\ DOMAIN Report.StatusRequests = {c \in StatusCodes : mergedStatus[c] > 0}

C8_Witness ==
    /\ RunReturned
    /\ \A w \in Workers : ~Panicking(w)
    /\ mergedStatus[200] = 1
    /\ mergedStatus[500] = 1
    /\ Report.Requests = 2

\* C9: whenever no worker is inside the merge critical section, the histogram
\* buckets sum to the number of merged outcomes that carried a status code;
\* an outcome with an error creates and increments no bucket.
C9_HistogramSum ==
    mu = 0 =>
        /\ SumOver(Report.StatusRequests, DOMAIN Report.StatusRequests)
               = SumOver(mergedStatus, StatusCodes)
        /\ DOMAIN Report.StatusRequests \subseteq StatusCodes

C9_Witness ==
    /\ mu = 0
    /\ SumOver(mergedErrors, ErrKinds) = 1
    /\ SumOver(mergedStatus, StatusCodes) = 1

\* C10: Run returns only after every spawned worker has finished all its
\* assigned requests, so the derived statistics are written after the last
\* merge and no merge follows them.
C10_ReturnsAfterAllWorkers ==
    RunReturned =>
        /\ mu = 0
        /\ \A w \in Spawned :
             /\ pc[w] = "finished"
             /\ issued[w] = (IF w <= Concurrency THEN Requests \div Concurrency ELSE 1)

\* The positions of a worker inside updateReport with the mutex held.
InsideMerge(w) == pc[w] \in {"count", "minmax", "panicUnlock"}

\* C11: at most one worker is inside the critical section of updateReport,
\* the mutex is held exactly by the worker inside it (so it is released after
\* every merge, a panicking one included), and while workers run the Report
\* is written only by a step of the worker holding the mutex.
C11_MergesExclusive ==
    /\ [](/\ Cardinality({w \in Workers : InsideMerge(w)}) <= 1
          /\ \A w \in Workers : InsideMerge(w) <=> mu = w)
    /\ [][Report' # Report =>
            \/ mainpc = "finalize" /\ mainpc' = "done"
            \/ \E w \in Workers :
                 /\ pc'[w] # pc[w]
                 /\ mu = w \/ mu' = w]_vars

C11_Witness ==
    \E w, v \in Workers : mu = w /\ pc[w] = "count" /\ pc[v] = "lock"

\* C12: when Run has returned with Report.Requests > 0, the counters satisfy
\* 100*Succeeded + 100*Failed = 100*Requests, the three percentages are
\* finite, PercentageSucceeded + PercentageFailed is 100 within floating-point
\* tolerance, and PercentageTimedOut <= PercentageFailed.
C12_PercentagesAddUp ==
    (RunReturned /\ Report.Requests > 0) =>
        /\ 100 * Report.Succeeded + 100 * Report.Failed = 100 * Report.Requests
        /\ IsFinite(Report.PercentageSucceeded)
        /\ IsFinite(Report.PercentageFailed)
        /\ IsFinite(Report.PercentageTimedOut)
        /\ F64Near(F64Plus(F64Value(Report.PercentageSucceeded),
                           F64Value(Report.PercentageFailed)),
                   F64FromInt(100))
        /\ F64Leq(F64Value(Report.PercentageTimedOut),
                  F64Value(Report.PercentageFailed))

\* Run returned after one success out of three requests: the two percentages
\* are rounded, and their float64 sum is not the float64 100 itself.
C12_Witness ==
    /\ RunReturned
    /\ Report.Requests = 3
    /\ Report.Succeeded = 1
    /\ F64Plus(F64Value(Report.PercentageSucceeded),
               F64Value(Report.PercentageFailed)) # F64FromInt(100)

\* C13: for concurrency > 0, run() spawns concurrency + (requests mod
\* concurrency) worker goroutines, of which at most concurrency - 1 are extra
\* single-shot workers, and the requests in flight at once never exceed that
\* number, which is at most 2 * concurrency - 1.
C13_WorkersSpawned ==
    Concurrency > 0 =>
        LET born == {w \in Workers : pc[w] # "unborn"}
            extra == {w \in born : w > Concurrency}
            inFlight == {w \in Workers : pc[w] = "do"}
            tasks == Concurrency + (Requests % Concurrency)
        IN /\ Cardinality(born) <= tasks
           /\ mainpc \in {"wait", "finalize", "done"} => Cardinality(born) = tasks
           /\ Cardinality(extra) <= Concurrency - 1
           /\ \A w \in extra : share[w] = 1
           /\ Cardinality(inFlight) <= tasks
           /\ tasks <= 2 * Concurrency - 1

C13_Witness ==
    /\ Concurrency = 2
    /\ Requests % Concurrency = 1
    /\ mainpc = "wait"
    /\ Cardinality({w \in Workers : pc[w] # "unborn"}) = 3
    /\ \E w \in Workers : w > Concurrency /\ pc[w] = "do"

\* C14 as claimed: Failed counts exactly the outcomes with a non-2xx status
\* or an error; a response with a 2xx status other than 200 is not counted
\* as failed.
C14_FailedIsNon2xx ==
    mu = 0 =>
        Report.Failed =
            SumOver(mergedStatus, {c \in StatusCodes : c < 200 \/ c > 299})
                + SumOver(mergedErrors, ErrKinds)

\* C14 as amended: Failed counts exactly the outcomes with a status other
\* than 200 or an error that was merged; a 2xx response other than 200 is
\* counted as failed.
C14_FailedIsNot200 ==
    mu = 0 =>
        Report.Failed =
            SumOver(mergedStatus, StatusCodes \ {200})
                + SumOver(mergedErrors, ErrKinds)

C14_Witness ==
    /\ mu = 0
    /\ mergedStatus[201] = 1
    /\ Report.Failed = 1
    /\ Report.Requests = 1

\* C16: whenever no worker is inside the merge critical section, TimedOut <=
\* Failed, and the outcomes counted in TimedOut and in Succeeded are disjoint.
C16_TimedOutWithinFailed ==
    mu = 0 =>
        /\ Report.TimedOut <= Report.Failed
        /\ Report.TimedOut + Report.Succeeded <= Report.Requests

C16_Witness ==
    /\ mu = 0
    /\ mergedErrors["timeout"] = 1
    /\ Report.Failed = 1

\* C19: with concurrency = 0 and requests > 0, Run spawns no worker and
\* issues no request, never reaches the join or the finalization and never
\* returns; the only step left at the work partitioning is the integer
\* divide-by-zero panic.
C19_ZeroConcurrencyFaults ==
    (Concurrency = 0 /\ Requests > 0) =>
        /\ \A w \in Workers : pc[w] = "unborn" /\ issued[w] = 0
        /\ wg = 0
        /\ mainpc \in {"spawnBase", "spawnExtra", "fatal"}
        /\ Report = NewStressReport

C19_Witness ==
    /\ Concurrency = 0
    /\ Requests > 0
    /\ mainpc = "fatal"
    /\ crashed

\* C17: a worker reads a field of the Report only while no other worker is
\* in the middle of a merge (the consequence the claim draws from workers
\* accessing the Report only with the mutex held): the step that prints the
\* verbose line, reading Report.Requests, is taken only with the mutex free
\* or held by the reader.
C17_NoReadDuringMerge ==
    [][\A w \in Workers :
          (pc[w] = "print" /\ pc'[w] # "print") => mu \in {0, w}]_vars

\* C18: in a verbose run whose N requests all succeeded and which returned
\* without a panic, the sequence numbers printed are exactly 1..N, each once.
C18_SequenceNumbersDistinct ==
    (/\ Verbose
     /\ RunReturned
     /\ \A w \in Workers : ~Panicking(w)
     /\ mergedStatus[200] = Report.Requests) =>
        \A n \in DOMAIN printed :
            printed[n] = (IF n <= Report.Requests THEN 1 ELSE 0)

=============================================================================
